---------------------------- MODULE Spec2Model ----------------------------
(***************************************************************************)
(* Model of src/Aida2.py: the thermal energy recurrence                    *)
(* calculate_energy_consumption and the scenario comparison of             *)
(* HVACController (simulate_control followed by plot_results).             *)
(*                                                                         *)
(* Numbers.  A Python / numpy float is modelled as an exact rational       *)
(* <<n, d>> in lowest terms with d > 0, so the arithmetic of the source is *)
(* carried out as written (same operators, same order) without the         *)
(* rounding of IEEE doubles.  An integer array element is a rational with  *)
(* denominator 1; storing a float into an integer array truncates toward   *)
(* zero, as numpy's item assignment does.                                  *)
(*                                                                         *)
(* Indices.  Python sequences are 0-based; a TLA+ sequence is 1-based, so  *)
(* the Python element s[k] is At(s, k) = s[k + 1].                         *)
(***************************************************************************)
EXTENDS Integers, Sequences, FiniteSets, TLC

VARIABLES
    \* ---- calculate_energy_consumption(setpoints, outdoor_temps, building_params)
    setpoints,        \* argument: sequence of rationals
    outdoor_temps,    \* argument: sequence of rationals
    building_params,  \* argument: record of the five thermal parameters
    dtype,            \* element type of setpoints: "int" or "float"
    energy,           \* local array energy
    indoor_temp,      \* local array indoor_temp
    i,                \* loop variable of "for i in range(1, len(setpoints))"
    pc,               \* "entry", "loop", "returned", "raised"
    exc,              \* the exception that ended the call, "none" otherwise
    \* ---- HVACController
    data,             \* self.data: the outdoor_temp column, <<>> while None
    days,             \* argument of simulate_control
    start_idx,        \* local of simulate_control
    mlp_predictions,  \* local of simulate_control
    lstm_predictions, \* local of simulate_control
    simulation_data,  \* the frame simulate_control returns, by column
    totals,           \* the dictionary plot_results returns
    savings,          \* the two savings percentages plot_results formats
    printed,          \* the same as printed with the format .2f
    cpc,              \* "init", "loaded", "simulated", "plotted", "raised"
    cexc              \* the exception that ended simulate_control

simVars == <<setpoints, outdoor_temps, building_params, dtype, energy,
             indoor_temp, i, pc, exc>>

ctlVars == <<data, days, start_idx, mlp_predictions, lstm_predictions,
             simulation_data, totals, savings, printed, cpc, cexc>>

vars == <<simVars, ctlVars>>

----------------------------------------------------------------------------
(* Rational arithmetic: the float operators of the source.                 *)

RECURSIVE GCD(_, _)
GCD(a, b) == IF b = 0 THEN a ELSE GCD(b, a % b)

IAbs(n) == IF n < 0 THEN -n ELSE n

\* the rational n/d (d # 0) in lowest terms with a positive denominator
Norm(n, d) ==
    LET g == GCD(IAbs(n), IAbs(d))
        s == IF d < 0 THEN -1 ELSE 1
    IN  <<(s * n) \div g, (s * d) \div g>>

R(n) == <<n, 1>>
Zero == R(0)

RAdd(x, y) == Norm(x[1] * y[2] + y[1] * x[2], x[2] * y[2])
RSub(x, y) == Norm(x[1] * y[2] - y[1] * x[2], x[2] * y[2])
RMul(x, y) == Norm(x[1] * y[1], x[2] * y[2])
\* y is not zero
RDiv(x, y) == Norm(x[1] * y[2], x[2] * y[1])
RAbs(x)    == <<IAbs(x[1]), x[2]>>
RLt(x, y)  == x[1] * y[2] < y[1] * x[2]
RGt(x, y)  == RLt(y, x)

\* float -> integer conversion of an item assignment into an integer array:
\* the fractional part is dropped (truncation toward zero)
Trunc(x) == IF x[1] >= 0 THEN x[1] \div x[2] ELSE -((-x[1]) \div x[2])

At(s, k) == s[k + 1]

\* sum of s[lo..hi]
RECURSIVE RSumRange(_, _, _)
RSumRange(s, lo, hi) ==
    IF lo > hi THEN Zero
    ELSE IF lo = hi THEN s[lo]
    ELSE LET mid == (lo + hi) \div 2
         IN  RAdd(RSumRange(s, lo, mid), RSumRange(s, mid + 1, hi))

RSum(s) == RSumRange(s, 1, Len(s))

----------------------------------------------------------------------------
(* Bounds and input sets of the simulator.                                 *)

MaxLen == 3

SeqsUpTo(S, n) == UNION {[1..k -> S] : k \in 0..n}

\* setpoints of an integer array / list of ints, and of a float array
IntSetpointVals   == {R(21), R(22)}
FloatSetpointVals == {R(21), <<43, 2>>}
OutdoorVals       == {R(10), R(22)}

ParamSets ==
    [heat_capacity         : {R(10), R(-10)},
     heat_loss_coefficient : {R(2), R(0)},
     cop_heating           : {R(3), R(-3)},
     cop_cooling           : {R(4), R(-4)},
     time_step             : {R(1), R(-1)}]

SimInputs ==
    {<<d, sp>> : d \in {"int"}, sp \in SeqsUpTo(IntSetpointVals, MaxLen)}
    \cup
    {<<d, sp>> : d \in {"float"}, sp \in SeqsUpTo(FloatSetpointVals, MaxLen)}

----------------------------------------------------------------------------
(* calculate_energy_consumption, lines 388-432.                            *)

\* value stored by "a[k] = v" into an array of element type d
Store(d, v) == IF d = "int" THEN R(Trunc(v)) ELSE v

\* mutant of ZerosLike: the array starts as np.ones_like(setpoints)
OnesLike(sp) == [k \in 1..Len(sp) |-> R(1)]

\* np.zeros_like(setpoints)
ZerosLike(sp) == [k \in 1..Len(sp) |-> Zero]

\* np.full_like(setpoints, v)
FullLike(sp, d, v) == [k \in 1..Len(sp) |-> Store(d, v)]

\* lines 414-415
temp_change_natural(out_prev, in_prev, bp) ==
    RMul(RDiv(RMul(RSub(out_prev, in_prev), bp.heat_loss_coefficient),
              bp.heat_capacity),
         bp.time_step)

\* line 418
indoor_temp_natural(out_prev, in_prev, bp) ==
    RAdd(in_prev, temp_change_natural(out_prev, in_prev, bp))

\* line 421
temp_change_required(sp_i, out_prev, in_prev, bp) ==
    RSub(sp_i, indoor_temp_natural(out_prev, in_prev, bp))

\* lines 424-427: the value assigned to energy[i], before it is stored
EnergyRequired(tcr, bp) ==
    IF RGt(tcr, Zero)
    THEN RDiv(RMul(bp.heat_capacity, tcr), bp.cop_heating)
    ELSE RDiv(RMul(bp.heat_capacity, RAbs(tcr)), bp.cop_cooling)

\* lines 412-430: the arrays after the loop body has run for index k
LoopBody(sp, out, bp, d, en, ind, k) ==
    LET tcr == temp_change_required(At(sp, k), At(out, k - 1), At(ind, k - 1), bp)
    IN  [energy      |-> [en EXCEPT ![k + 1] = Store(d, EnergyRequired(tcr, bp))],
         indoor_temp |-> [ind EXCEPT ![k + 1] = Store(d, At(sp, k))]]

\* mutant of RaisesAtEntry: an empty setpoints sequence is not read at entry
NeverRaisesAtEntry(sp) == FALSE

\* setpoints[0] of an empty sequence raises IndexError (line 409)
RaisesAtEntry(sp) == Len(sp) = 0

\* the whole call as a function of its arguments: the loop from index k on
RECURSIVE RunLoop(_, _, _, _, _, _, _)
RunLoop(sp, out, bp, d, en, ind, k) ==
    IF k >= Len(sp) THEN [raised |-> FALSE, energy |-> en]
    ELSE IF k - 1 >= Len(out) THEN [raised |-> TRUE, energy |-> <<>>]
    ELSE LET b == LoopBody(sp, out, bp, d, en, ind, k)
         IN  RunLoop(sp, out, bp, d, b.energy, b.indoor_temp, k + 1)

calculate_energy_consumption(sp, out, bp, d) ==
    IF RaisesAtEntry(sp) THEN [raised |-> TRUE, energy |-> <<>>]
    ELSE RunLoop(sp, out, bp, d, ZerosLike(sp), FullLike(sp, d, At(sp, 0)), 1)

SimInit ==
    /\ \E inp \in SimInputs : dtype = inp[1] /\ setpoints = inp[2]
    /\ outdoor_temps \in SeqsUpTo(OutdoorVals, MaxLen)
    /\ building_params \in ParamSets
    /\ energy = <<>>
    /\ indoor_temp = <<>>
    /\ i = 0
    /\ pc = "entry"
    /\ exc = "none"

\* lines 400-409: read the parameters, allocate the two arrays.
\* setpoints[0] of an empty sequence raises IndexError.
Enter ==
    /\ pc = "entry"
    /\ IF RaisesAtEntry(setpoints)
       THEN /\ pc' = "raised"
            /\ exc' = "IndexError"
            /\ UNCHANGED <<energy, indoor_temp, i>>
       ELSE /\ energy' = ZerosLike(setpoints)
            /\ indoor_temp' = FullLike(setpoints, dtype, At(setpoints, 0))
            /\ i' = 1
            /\ pc' = "loop"
            /\ exc' = "none"
    /\ UNCHANGED <<setpoints, outdoor_temps, building_params, dtype, ctlVars>>

\* lines 412-430: one iteration of the loop body.
\* outdoor_temps[i - 1] past the end of outdoor_temps raises IndexError.
LoopStep ==
    /\ pc = "loop"
    /\ i < Len(setpoints)
    /\ IF i - 1 >= Len(outdoor_temps)
       THEN /\ pc' = "raised"
            /\ exc' = "IndexError"
            /\ UNCHANGED <<energy, indoor_temp, i>>
       ELSE LET b == LoopBody(setpoints, outdoor_temps, building_params, dtype,
                              energy, indoor_temp, i)
            IN  /\ energy' = b.energy
                /\ indoor_temp' = b.indoor_temp
                /\ i' = i + 1
                /\ UNCHANGED <<pc, exc>>
    /\ UNCHANGED <<setpoints, outdoor_temps, building_params, dtype, ctlVars>>

\* line 432: the range is exhausted, energy is returned
Return ==
    /\ pc = "loop"
    /\ i >= Len(setpoints)
    /\ pc' = "returned"
    /\ UNCHANGED <<setpoints, outdoor_temps, building_params, dtype, energy,
                   indoor_temp, i, exc, ctlVars>>

\* the simulator while only the controller runs: never called
SimIdle ==
    /\ setpoints = <<>>
    /\ outdoor_temps = <<>>
    /\ building_params = [heat_capacity |-> R(1), heat_loss_coefficient |-> R(1),
                          cop_heating |-> R(1), cop_cooling |-> R(1),
                          time_step |-> R(1)]
    /\ dtype = "float"
    /\ energy = <<>>
    /\ indoor_temp = <<>>
    /\ i = 0
    /\ pc = "idle"
    /\ exc = "none"

----------------------------------------------------------------------------
(* HVACController: load_data, simulate_control, plot_results.              *)

\* hours in one simulated day: the window is 24 * days rows
HoursPerDay == 24
\* sequence_length of the LSTM model in simulate_control
SequenceLength == 24
\* the constant setpoint of the baseline
BaselineSetpoint == 22

\* days of hourly samples in self.data (a year in the source)
DataDays == 3
\* largest argument days of simulate_control
MaxDays == 3

NSamples == HoursPerDay * DataDays

\* load_data: outdoor temperature per hourly sample.  The source draws it
\* from a sinusoid plus Gaussian noise; here it is one of a few profiles, among
\* them one that is 22 throughout.
DataProfiles ==
    {[k \in 1..NSamples |-> R(base + amp * (k % per))] :
        <<base, amp, per>> \in {<<10, 1, 5>>, <<25, 2, 3>>, <<22, 0, 1>>}}

\* A trained network with its scalers is a function from its input rows to
\* setpoints that the source does not fix; here the k-th output of a network
\* is base + step * (k mod period), in halves of a degree.
Networks ==
    {[base |-> 44, step |-> 0, period |-> 1],
     [base |-> 40, step |-> 1, period |-> 3],
     [base |-> 46, step |-> 2, period |-> 2],
     [base |-> 20, step |-> 3, period |-> 4]}

NetOutput(net, k) == Norm(net.base + net.step * (k % net.period), 2)

\* HVACNeuralNetwork.predict: one output per row for the MLP, one per window
\* of sequence_length rows for the LSTM (range(len(X) - sequence_length + 1))
predict(model_type, net, n, sequence_length) ==
    LET m == IF model_type = "LSTM"
             THEN (IF n - sequence_length + 1 > 0 THEN n - sequence_length + 1 ELSE 0)
             ELSE n
    IN  [k \in 1..m |-> NetOutput(net, k)]

\* mutant of AlignLstm: the padding is appended instead of prepended
AlignLstmRightPad(p, w) ==
    IF Len(p) < w
    THEN p \o [k \in 1..(w - Len(p)) |-> At(p, 0)]
    ELSE SubSeq(p, 1, w)

\* lines 297-303: the LSTM predictions brought to the length w of the window
AlignLstm(p, w) ==
    IF Len(p) < w
    THEN [k \in 1..(w - Len(p)) |-> At(p, 0)] \o p
    ELSE SubSeq(p, 1, w)

\* mutant of SimplifiedEnergy: the column is run through the thermal
\* recurrence with fixed building parameters
EnergyViaRecurrence(sp_col, out_col) ==
    calculate_energy_consumption(
        sp_col, out_col,
        [heat_capacity |-> R(10), heat_loss_coefficient |-> R(2),
         cop_heating |-> R(3), cop_cooling |-> R(4), time_step |-> R(1)],
        "float").energy

\* lines 307-311: energy of a setpoint column against the outdoor column
SimplifiedEnergy(sp_col, out_col) ==
    [k \in 1..Len(out_col) |-> RMul(RAbs(RSub(sp_col[k], out_col[k])), <<1, 10>>)]

\* np.full(n, 22) as used for the baseline
BaselineColumn(n) == [k \in 1..n |-> R(BaselineSetpoint)]

\* mutant of SavingsPct: a negative percentage is clamped to zero
SavingsPctClamped(total, baseline_total) ==
    IF baseline_total = Zero
    THEN [kind |-> IF total = Zero THEN "nan" ELSE "-inf", val |-> Zero]
    ELSE LET v == RMul(RSub(R(1), RDiv(total, baseline_total)), R(100))
         IN  [kind |-> "finite", val |-> IF RLt(v, Zero) THEN Zero ELSE v]

\* lines 355-356: (1 - total / baseline_total) * 100 on numpy floats; a zero
\* divisor gives nan (0/0) or -inf (1 - inf) with a warning, not an exception.
\* kind is "finite", "nan" or "-inf"; val is the value when finite.
SavingsPct(total, baseline_total) ==
    IF baseline_total = Zero
    THEN [kind |-> IF total = Zero THEN "nan" ELSE "-inf", val |-> Zero]
    ELSE [kind |-> "finite",
          val  |-> RMul(RSub(R(1), RDiv(total, baseline_total)), R(100))]

\* the format .2f: sign and hundredths; a value exactly half way between two
\* hundredths is printed as either neighbour (the double behind it decides)
Format2f(x) ==
    IF x.kind # "finite" THEN {[kind |-> x.kind, neg |-> x.kind = "-inf", hundredths |-> 0]}
    ELSE LET a  == RAbs(x.val)
             lo == (a[1] * 100) \div a[2]
             r2 == 2 * ((a[1] * 100) % a[2])
             mags == IF r2 < a[2] THEN {lo}
                     ELSE IF r2 > a[2] THEN {lo + 1}
                     ELSE {lo, lo + 1}
         IN  {[kind |-> "finite", neg |-> x.val[1] < 0, hundredths |-> h] : h \in mags}

NoSavings == [kind |-> "none", val |-> Zero]
NoPrint   == [kind |-> "none", neg |-> FALSE, hundredths |-> 0]

NoFrame == [outdoor_temp |-> <<>>, mlp_setpoint |-> <<>>, lstm_setpoint |-> <<>>,
            mlp_energy |-> <<>>, lstm_energy |-> <<>>, baseline_energy |-> <<>>]

CtlInit ==
    /\ data = <<>>
    /\ days = 0
    /\ start_idx = 0
    /\ mlp_predictions = <<>>
    /\ lstm_predictions = <<>>
    /\ simulation_data = NoFrame
    /\ totals = [mlp_energy |-> Zero, lstm_energy |-> Zero, baseline_energy |-> Zero]
    /\ savings = [mlp |-> NoSavings, lstm |-> NoSavings]
    /\ printed = [mlp |-> NoPrint, lstm |-> NoPrint]
    /\ cpc = "init"
    /\ cexc = "none"

\* lines 162-213
load_data ==
    /\ cpc = "init"
    /\ data' \in DataProfiles
    /\ cpc' = "loaded"
    /\ UNCHANGED <<days, start_idx, mlp_predictions, lstm_predictions,
                   simulation_data, totals, savings, printed, cexc, simVars>>

\* lines 276-313.  np.random.randint(0, high) raises ValueError unless
\* high > 0; assigning a column of another length than the frame raises
\* ValueError.
simulate_control ==
    /\ cpc \in {"init", "loaded"}
    /\ \E d \in (IF data = <<>> THEN DataProfiles ELSE {data}), dys \in 1..MaxDays :
         LET high == Len(d) - HoursPerDay * dys
         IN  /\ data' = d
             /\ days' = dys
             /\ IF high <= 0
                THEN /\ cpc' = "raised"
                     /\ cexc' = "ValueError"
                     /\ UNCHANGED <<start_idx, mlp_predictions, lstm_predictions,
                                    simulation_data>>
                ELSE \E s \in 0..(high - 1), netM \in Networks, netL \in Networks :
                       LET out  == SubSeq(d, s + 1, s + HoursPerDay * dys)
                           w    == Len(out)
                           mlp  == predict("MLP", netM, w, 0)
                           lstm == predict("LSTM", netL, w, SequenceLength)
                           lcol == AlignLstm(lstm, w)
                       IN  /\ start_idx' = s
                           /\ mlp_predictions' = mlp
                           /\ lstm_predictions' = lstm
                           /\ IF Len(mlp) # w \/ Len(lcol) # w
                              THEN /\ cpc' = "raised"
                                   /\ cexc' = "ValueError"
                                   /\ UNCHANGED simulation_data
                              ELSE /\ simulation_data' =
                                        [outdoor_temp    |-> out,
                                         mlp_setpoint    |-> mlp,
                                         lstm_setpoint   |-> lcol,
                                         mlp_energy      |-> SimplifiedEnergy(mlp, out),
                                         lstm_energy     |-> SimplifiedEnergy(lcol, out),
                                         baseline_energy |->
                                             SimplifiedEnergy(BaselineColumn(w), out)]
                                   /\ cpc' = "simulated"
                                   /\ cexc' = "none"
    /\ UNCHANGED <<totals, savings, printed, simVars>>

\* lines 349-363
plot_results ==
    /\ cpc = "simulated"
    /\ LET mlp_total      == RSum(simulation_data.mlp_energy)
           lstm_total     == RSum(simulation_data.lstm_energy)
           baseline_total == RSum(simulation_data.baseline_energy)
           sm == SavingsPct(mlp_total, baseline_total)
           sl == SavingsPct(lstm_total, baseline_total)
       IN  /\ totals' = [mlp_energy |-> mlp_total, lstm_energy |-> lstm_total,
                         baseline_energy |-> baseline_total]
           /\ savings' = [mlp |-> sm, lstm |-> sl]
           /\ \E fm \in Format2f(sm), fl \in Format2f(sl) :
                  printed' = [mlp |-> fm, lstm |-> fl]
    /\ cpc' = "plotted"
    /\ UNCHANGED <<data, days, start_idx, mlp_predictions, lstm_predictions,
                   simulation_data, cexc, simVars>>

\* the controller while only the simulator runs: never constructed further
CtlIdle == CtlInit

----------------------------------------------------------------------------
(* Specifications.                                                         *)

Init == SimInit /\ CtlIdle

Next == Enter \/ LoopStep \/ Return

Spec == Init /\ [][Next]_vars

InitCtl == CtlInit /\ SimIdle

NextCtl == load_data \/ simulate_control \/ plot_results

SpecCtl == InitCtl /\ [][NextCtl]_vars

----------------------------------------------------------------------------
(* Properties.                                                             *)

\* every one of the five parameters is > 0
AllPositive(bp) ==
    /\ RGt(bp.heat_capacity, Zero)
    /\ RGt(bp.heat_loss_coefficient, Zero)
    /\ RGt(bp.cop_heating, Zero)
    /\ RGt(bp.cop_cooling, Zero)
    /\ RGt(bp.time_step, Zero)

\* exactly one of the five parameters is zero or negative
OneNonPositive(bp) ==
    \E f \in DOMAIN bp :
        /\ ~RGt(bp[f], Zero)
        /\ \A g \in DOMAIN bp \ {f} : RGt(bp[g], Zero)

\* the documented preconditions: equal lengths >= 1, positive parameters
ValidCall ==
    /\ Len(setpoints) = Len(outdoor_temps)
    /\ Len(setpoints) >= 1
    /\ AllPositive(building_params)

\* the parameters of the documented scenario
ScenarioParams ==
    [heat_capacity |-> R(10), heat_loss_coefficient |-> R(2),
     cop_heating |-> R(3), cop_cooling |-> R(4), time_step |-> R(1)]

\* the energy of one step as the documented recurrence states it, with the
\* previous indoor temperature equal to the previous setpoint
ClaimedEnergy(sp_prev, sp_i, out_prev, bp) ==
    LET drift          == RMul(RDiv(RMul(RSub(out_prev, sp_prev),
                                         bp.heat_loss_coefficient),
                                    bp.heat_capacity),
                               bp.time_step)
        indoor_natural == RAdd(sp_prev, drift)
        delta          == RSub(sp_i, indoor_natural)
    IN  IF RGt(delta, Zero)
        THEN RDiv(RMul(bp.heat_capacity, delta), bp.cop_heating)
        ELSE RDiv(RMul(bp.heat_capacity, RAbs(delta)), bp.cop_cooling)

\* C1: with positive parameters, every energy[k], k in 1..n-1, of a returned
\* sequence is exactly the value of the documented recurrence, without
\* rounding or truncation; in the documented scenario energy[1] is 22/3.
C1_ExactRecurrence ==
    (pc = "returned" /\ ValidCall) =>
        /\ \A k \in 1..(Len(setpoints) - 1) :
              At(energy, k) = ClaimedEnergy(At(setpoints, k - 1), At(setpoints, k),
                                            At(outdoor_temps, k - 1), building_params)
        /\ (/\ setpoints = <<R(21), R(21)>>
            /\ outdoor_temps = <<R(10), R(10)>>
            /\ building_params = ScenarioParams) => At(energy, 1) = <<22, 3>>

\* C2: when any one of the five parameters is zero or negative, the call on
\* otherwise valid inputs ends with an InvalidParameter error before any
\* energy value is computed, and nothing is returned.
C2_InvalidParameterRaised ==
    (/\ OneNonPositive(building_params)
     /\ Len(setpoints) = Len(outdoor_temps)
     /\ Len(setpoints) >= 1
     /\ pc \notin {"idle", "entry"}) =>
        (pc = "raised" /\ exc = "InvalidParameter" /\ energy = <<>>)

\* C3: when setpoints (not empty) and outdoor_temps differ in length, in
\* either direction, no energy sequence is returned (positive parameters)
\* and the call ends with a LengthMismatch error.
C3_LengthMismatchRaised ==
    (/\ Len(setpoints) # Len(outdoor_temps)
     /\ Len(setpoints) >= 1
     /\ AllPositive(building_params)) =>
        /\ pc # "returned"
        /\ pc = "raised" => exc = "LengthMismatch"

\* C4 as stated: with both sequences empty the call returns the empty
\* sequence and raises nothing.
C4_EmptyReturnsEmpty ==
    (/\ Len(setpoints) = 0
     /\ Len(outdoor_temps) = 0
     /\ pc \notin {"idle", "entry", "loop"}) =>
        (pc = "returned" /\ energy = <<>> /\ exc = "none")

\* C4 as amended: with both sequences empty the call raises IndexError (from
\* reading setpoints[0]) and returns no sequence.
C4_EmptyInputRaises ==
    (/\ Len(setpoints) = 0
     /\ Len(outdoor_temps) = 0
     /\ pc \notin {"idle", "entry"}) =>
        (pc = "raised" /\ exc = "IndexError" /\ energy = <<>>)

C4_Witness ==
    /\ Len(setpoints) = 0
    /\ Len(outdoor_temps) = 0
    /\ pc = "raised"

\* C5: for equal-length inputs of length n >= 1 the call returns, the output
\* has exactly n elements and energy[0] = 0; a length-1 input returns [0].
C5_LengthAndFirstZero ==
    (/\ Len(setpoints) = Len(outdoor_temps)
     /\ Len(setpoints) >= 1) =>
        /\ pc # "raised"
        /\ pc = "returned" =>
              /\ Len(energy) = Len(setpoints)
              /\ At(energy, 0) = Zero
              /\ Len(setpoints) = 1 => energy = <<Zero>>

C5_Witness ==
    /\ pc = "returned"
    /\ Len(setpoints) = Len(outdoor_temps)
    /\ Len(setpoints) >= 2
    /\ At(energy, 1) # Zero

\* C9: once the loop has processed step i, indoor_temp[j] = setpoints[j] for
\* every j <= i; and energy[k] is a function of setpoints[k-1], setpoints[k],
\* outdoor_temps[k-1] and the parameters alone: any other call with the same
\* parameters that agrees on those three values returns the same energy[k].
C9_EnergyDependsOnlyOnStep ==
    /\ pc \in {"loop", "returned"} =>
          \A j \in 0..(i - 1) : At(indoor_temp, j) = At(setpoints, j)
    /\ (pc = "returned" /\ ValidCall) =>
          \A inp2 \in SimInputs, out2 \in SeqsUpTo(OutdoorVals, MaxLen) :
              LET sp2 == inp2[2]
                  r2  == calculate_energy_consumption(sp2, out2, building_params, inp2[1])
                  n   == IF Len(sp2) < Len(setpoints) THEN Len(sp2) ELSE Len(setpoints)
              IN  (~r2.raised /\ Len(sp2) = Len(out2)) =>
                    \A k \in 1..(n - 1) :
                        (/\ At(sp2, k - 1) = At(setpoints, k - 1)
                         /\ At(sp2, k) = At(setpoints, k)
                         /\ At(out2, k - 1) = At(outdoor_temps, k - 1))
                        => At(r2.energy, k) = At(energy, k)

\* C10: with heat_capacity, cop_heating and cop_cooling positive, every
\* energy value computed so far (sequences of equal length) is >= 0, and it is 0 exactly when the setpoint
\* equals the natural (drifted) indoor temperature.
C10_NonNegativeZeroIff ==
    (/\ pc \in {"loop", "returned"}
     /\ Len(setpoints) = Len(outdoor_temps)
     /\ RGt(building_params.heat_capacity, Zero)
     /\ RGt(building_params.cop_heating, Zero)
     /\ RGt(building_params.cop_cooling, Zero)) =>
        \A k \in 1..(i - 1) :
            /\ ~RLt(At(energy, k), Zero)
            /\ At(energy, k) = Zero <=>
                  At(setpoints, k) = indoor_temp_natural(At(outdoor_temps, k - 1),
                                                       At(indoor_temp, k - 1),
                                                       building_params)

\* positive building parameters the comparison could have been run with
ComparatorParams ==
    [heat_capacity         : {R(1), R(10)},
     heat_loss_coefficient : {R(1), R(2)},
     cop_heating           : {R(1), R(3)},
     cop_cooling           : {R(1), R(4)},
     time_step             : {R(1)}]

Simulated(sp_col, out_col, bp) ==
    calculate_energy_consumption(sp_col, out_col, bp, "float").energy

TenthOfDistance(e, sp, out) ==
    e[1] * 10 * sp[2] * out[2] = IAbs(sp[1] * out[2] - out[1] * sp[2]) * e[2]

LeftPadded(col, p, w) ==
    LET m == Len(p)
    IN  /\ Len(col) = w
        /\ \A k \in 1..(w - m) : col[k] = p[1]
        /\ \A k \in 1..m : col[w - m + k] = p[k]

\* C7: a model whose prediction sequence has length m, 1 <= m < W, gets a
\* setpoint column of length W whose first W - m elements are p[0] and whose
\* last m elements are p in order; this holds for the MLP and the LSTM alike,
\* and both columns have the length W of the window.
C7_LeftPadAlignment ==
    cpc \in {"simulated", "plotted"} =>
        LET w == Len(simulation_data.outdoor_temp)
        IN  /\ w = HoursPerDay * days
            /\ Len(simulation_data.mlp_setpoint) = w
            /\ Len(simulation_data.lstm_setpoint) = w
            /\ (1 <= Len(mlp_predictions) /\ Len(mlp_predictions) < w) =>
                  LeftPadded(simulation_data.mlp_setpoint, mlp_predictions, w)
            /\ (1 <= Len(lstm_predictions) /\ Len(lstm_predictions) < w) =>
                  LeftPadded(simulation_data.lstm_setpoint, lstm_predictions, w)

C7_Witness ==
    /\ cpc = "simulated"
    /\ 2 <= Len(lstm_predictions)
    /\ Len(lstm_predictions) < Len(simulation_data.outdoor_temp)
    /\ lstm_predictions[1] # lstm_predictions[2]
    /\ lstm_predictions[1] # lstm_predictions[Len(lstm_predictions) - 1]

\* savings s is (1 - total / baseline_total) * 100, baseline_total not zero
IsSavingsOf(s, total, baseline_total) ==
    /\ s.kind = "finite"
    /\ RMul(s.val, baseline_total) = RMul(RSub(baseline_total, total), R(100))
    /\ (RGt(total, baseline_total) /\ RGt(baseline_total, Zero)) => RLt(s.val, Zero)

\* C8: each savings percentage is (1 - model_total / baseline_total) * 100;
\* it is strictly negative when the model's total exceeds a positive baseline
\* total, and it is printed with its minus sign.
C8_SavingsSign ==
    (cpc = "plotted" /\ totals.baseline_energy # Zero) =>
        /\ IsSavingsOf(savings.mlp, totals.mlp_energy, totals.baseline_energy)
        /\ IsSavingsOf(savings.lstm, totals.lstm_energy, totals.baseline_energy)
        /\ RLt(savings.mlp.val, Zero) => printed.mlp.neg
        /\ RLt(savings.lstm.val, Zero) => printed.lstm.neg

C8_Witness ==
    /\ cpc = "plotted"
    /\ RGt(totals.baseline_energy, Zero)
    /\ RGt(totals.mlp_energy, totals.baseline_energy)
    /\ RLt(savings.mlp.val, Zero)
    /\ printed.mlp.neg


=============================================================================
